---------------------------- MODULE Spec2Model ----------------------------
(***************************************************************************)
(* Model of scripts/gen_stub.py: the stub generator that imports a module, *)
(* enumerates its top-level names, and writes a .pyi declaration file.     *)
(*                                                                         *)
(* Text that the program inspects character by character (attribute names, *)
(* docstrings) is a sequence of one-character strings; text that it only   *)
(* concatenates and compares (rendered lines, file contents) is a string.  *)
(* A path is the sequence of its "/"-separated components.                 *)
(***************************************************************************)
EXTENDS Naturals, Sequences, FiniteSets, TLC

VARIABLES
    argv,          \* sys.argv of the current invocation
    sys_modules,   \* what importlib can resolve: module identifier -> module
    dirs,          \* filesystem: the directories that exist (the cwd always does)
    files,         \* filesystem: path -> content of the files that exist
    pc,            \* position of the run in the script
    package_name,  \* generate_stub_file's first parameter
    output_path,   \* generate_stub_file's second parameter
    pkg,           \* the imported module object
    public_names,  \* the filtered dir(pkg)
    idx,           \* position of the for loop in public_names
    pyi_lines,     \* the lines rendered so far
    stdout,        \* the lines printed by the current invocation
    exit_code,     \* process exit status, None while running
    exception,     \* the exception that ended the run, None if none
    run,           \* number of the current invocation
    dirs0,         \* directories that existed when the current invocation began
    files0,        \* files that existed when the current invocation began
    peer,          \* a second invocation running at the same time, if any
    io_log         \* the opens and writes of the output file, in order

vars == <<argv, sys_modules, dirs, files, pc, package_name, output_path, pkg,
          public_names, idx, pyi_lines, stdout, exit_code, exception, run,
          dirs0, files0, peer, io_log>>

None == "None"

(***************************************************************************)
(* Bounds of the checked input space.                                      *)
(***************************************************************************)
MaxNameLen == 5     \* longest attribute name drawn over NameAlphabet
MaxDocLen == 3      \* longest raw docstring drawn over DocAlphabet
MaxSecondDocLen == 1  \* longest raw docstring of a second documented callable
MaxDepth == 3       \* deepest nesting of the output path's directories
MaxRuns == 2        \* invocations of the tool in a row

(***************************************************************************)
(* Python str operations on character sequences.                           *)
(***************************************************************************)
RECURSIVE Str(_)
\* the string a character sequence spells
Str(cs) == IF cs = <<>> THEN "" ELSE Head(cs) \o Str(Tail(cs))

\* str.startswith
startswith(s, prefix) ==
    Len(s) >= Len(prefix) /\ SubSeq(s, 1, Len(prefix)) = prefix

\* str.endswith
endswith(s, suffix) ==
    Len(s) >= Len(suffix) /\ SubSeq(s, Len(s) - Len(suffix) + 1, Len(s)) = suffix

RECURSIVE split(_, _)
\* str.split(sep) for a one-character separator: always at least one piece
split(s, sep) ==
    IF \A i \in 1..Len(s) : s[i] # sep
    THEN <<s>>
    ELSE LET i == CHOOSE j \in 1..Len(s) :
                      s[j] = sep /\ \A k \in 1..(j - 1) : s[k] # sep
         IN  <<SubSeq(s, 1, i - 1)>> \o split(SubSeq(s, i + 1, Len(s)), sep)

\* str.splitlines: no line for the empty string, none after a final line break
splitlines(s) ==
    IF s = <<>> THEN <<>>
    ELSE LET pieces == split(s, "\n")
         IN  IF pieces[Len(pieces)] = <<>>
             THEN SubSeq(pieces, 1, Len(pieces) - 1)
             ELSE pieces

RECURSIVE join(_, _)
\* sep.join(lines) on character sequences
join(sep, lines) ==
    IF lines = <<>> THEN <<>>
    ELSE IF Len(lines) = 1 THEN lines[1]
    ELSE lines[1] \o sep \o join(sep, Tail(lines))

RECURSIVE JoinStr(_, _)
\* sep.join(lines) on strings
JoinStr(sep, lines) ==
    IF lines = <<>> THEN ""
    ELSE IF Len(lines) = 1 THEN lines[1]
    ELSE lines[1] \o sep \o JoinStr(sep, Tail(lines))

RECURSIVE lstrip(_)
\* str.lstrip() over the whitespace of DocAlphabet
lstrip(s) ==
    IF s # <<>> /\ Head(s) \in {" ", "\n"} THEN lstrip(Tail(s)) ELSE s

(***************************************************************************)
(* inspect.cleandoc, as inspect.getdoc applies it to a docstring.          *)
(***************************************************************************)
Min(S) == CHOOSE m \in S : \A n \in S : m <= n

RECURSIVE DropTrailingBlank(_)
DropTrailingBlank(lines) ==
    IF lines # <<>> /\ lines[Len(lines)] = <<>>
    THEN DropTrailingBlank(SubSeq(lines, 1, Len(lines) - 1))
    ELSE lines

RECURSIVE DropLeadingBlank(_)
DropLeadingBlank(lines) ==
    IF lines # <<>> /\ Head(lines) = <<>>
    THEN DropLeadingBlank(Tail(lines))
    ELSE lines

cleandoc(doc) ==
    LET lines == split(doc, "\n")
        \* indentation of the non-blank lines after the first
        indents == { Len(lines[i]) - Len(lstrip(lines[i])) :
                       i \in { j \in 2..Len(lines) : lstrip(lines[j]) # <<>> } }
        dedent(i) ==
            IF i = 1 THEN lstrip(lines[1])
            ELSE IF indents = {} THEN lines[i]
            ELSE SubSeq(lines[i], Min(indents) + 1, Len(lines[i]))
        dedented == [i \in 1..Len(lines) |-> dedent(i)]
    IN  join(<<"\n">>, DropLeadingBlank(DropTrailingBlank(dedented)))

\* inspect.getdoc(attr): None (<<>>) without a docstring, else the cleaned
\* docstring (<<text>>)
getdoc(attr) == IF attr.doc = <<>> THEN <<>> ELSE <<cleandoc(attr.doc[1])>>

(***************************************************************************)
(* The module object.  A module is a function from its attribute names to  *)
(* attributes; an attribute records what the script can observe of it:     *)
(*   raises  getattr(pkg, name) raises instead of returning the value      *)
(*   kind    what the bound value is                                       *)
(*   sig     what inspect.signature does: err = "none" and the parameters, *)
(*           or the exception it raises                                    *)
(*   doc     <<>> for no __doc__, <<text>> for a docstring                 *)
(***************************************************************************)
Kinds == {"function", "builtin", "class", "module", "data"}

\* inspect.isfunction
isfunction(attr) == attr.kind = "function"

\* inspect.isbuiltin
isbuiltin(attr) == attr.kind = "builtin"

\* code point order of the characters attribute names are drawn from
CharOrd(c) == CASE c = "_" -> 95 [] c = "f" -> 102 [] c = "g" -> 103

RECURSIVE StrLess(_, _)
\* Python's < on str
StrLess(a, b) ==
    IF a = <<>> THEN b # <<>>
    ELSE IF b = <<>> THEN FALSE
    ELSE IF Head(a) = Head(b) THEN StrLess(Tail(a), Tail(b))
    ELSE CharOrd(Head(a)) < CharOrd(Head(b))

RECURSIVE sorted(_)
\* sorted(S) for a set of str
sorted(S) ==
    IF S = {} THEN <<>>
    ELSE LET m == CHOOSE x \in S : \A y \in S \ {x} : StrLess(x, y)
         IN  <<m>> \o sorted(S \ {m})

\* dir(pkg): the attribute names, sorted
dir(module) == sorted(DOMAIN module)

\* is_magic, had the filter dropped every name with a leading underscore
is_magic_LeadingUnderscore(name) == startswith(name, <<"_">>)

\* the test of the comprehension's filter: a magic name
is_magic(name) == startswith(name, <<"_", "_">>) /\ endswith(name, <<"_", "_">>)

RECURSIVE SelectNames(_)
SelectNames(names) ==
    IF names = <<>> THEN <<>>
    ELSE IF is_magic(Head(names)) THEN SelectNames(Tail(names))
    ELSE <<Head(names)>> \o SelectNames(Tail(names))

\* public_names = [name for name in dir(pkg) if not (... and ...)]
PublicNames(module) == SelectNames(dir(module))

\* str(inspect.Signature) of plain parameters
FormatSignature(params) == "(" \o JoinStr(", ", params) \o ")"

\* the handlers of the try around inspect.signature: the exceptions it absorbs
CaughtBySignatureTry == {"ValueError"}

\* SignatureText, had the except clause assigned "()"
SignatureText_EmptyParens(attr) ==
    IF attr.sig.err = "none" THEN FormatSignature(attr.sig.params) ELSE "()"

\* sig after the try statement (only when the try does not let an error out)
SignatureText(attr) ==
    IF attr.sig.err = "none" THEN FormatSignature(attr.sig.params) ELSE "(...)"

\* doc = inspect.getdoc(attr) or ""; doc_lines = doc.splitlines() if doc else []
DocLines(attr) ==
    LET got == getdoc(attr)
        doc == IF got = <<>> THEN <<>> ELSE got[1]
    IN  IF doc # <<>> THEN splitlines(doc) ELSE <<>>

\* DocBlock, had the loop appended each doc line as it is, without the indent
DocBlock_NoIndent(doc_lines) ==
    IF doc_lines # <<>>
    THEN <<"    \"\"\"">>
         \o [i \in 1..Len(doc_lines) |-> Str(doc_lines[i])]
         \o <<"    \"\"\"">>
    ELSE <<"    \"\"\"No docstring available.\"\"\"">>

\* the lines appended for the docstring
DocBlock(doc_lines) ==
    IF doc_lines # <<>>
    THEN <<"    \"\"\"">>
         \o [i \in 1..Len(doc_lines) |-> "    " \o Str(doc_lines[i])]
         \o <<"    \"\"\"">>
    ELSE <<"    \"\"\"No docstring available.\"\"\"">>

\* the declaration line
DefLine(name, sig) == "def " \o Str(name) \o sig \o ":"

\* the lines one eligible callable appends to pyi_lines
Block(name, sig, doc_lines) ==
    <<DefLine(name, sig)>> \o DocBlock(doc_lines) \o <<"    ...", "">>

\* Header, had the comment line carried a stamp of the generation
Header_Stamped(name) ==
    << "# Auto-generated stub file for " \o name
          \o (IF run = 1 THEN " (1)" ELSE " (again)"),
       "\"\"\"",
       "Type hints and function signatures stub file for IDE autocompletion.",
       "Auto-generated to avoid manual maintenance. Can be enhanced with more precise type annotations.",
       "\"\"\"",
       "" >>

\* the lines appended before the loop
Header(name) ==
    << "# Auto-generated stub file for " \o name,
       "\"\"\"",
       "Type hints and function signatures stub file for IDE autocompletion.",
       "Auto-generated to avoid manual maintenance. Can be enhanced with more precise type annotations.",
       "\"\"\"",
       "" >>

(***************************************************************************)
(* The filesystem.                                                         *)
(***************************************************************************)
\* os.path.dirname: the empty path for a bare file name
dirname(path) == SubSeq(path, 1, Len(path) - 1)

\* the path as the string the script prints
PathStr(path) == JoinStr("/", path)

\* the directories os.makedirs(d, exist_ok=True) leaves for a non-empty d
makedirs(d, existing) == existing \cup { SubSeq(d, 1, k) : k \in 1..Len(d) }

\* os.makedirs raises FileNotFoundError for the empty path
MakedirsFails(d) == d = <<>>

\* open(path, "w") needs the parent directory (the cwd for a bare name)
OpenFails(path, existing) == dirname(path) # <<>> /\ dirname(path) \notin existing

\* open(path, "w"): the file exists and is empty
OpenW(path, fs) == [p \in DOMAIN fs \cup {path} |-> IF p = path THEN "" ELSE fs[p]]

\* WriteText, had the text been staged in a temporary file and renamed over
\* the destination
WriteText_Replace(path, text, fs) == [fs EXCEPT ![path] = text]

\* f.write(text) and close: the text (ASCII here, one byte a character, and
\* short enough for one write call) goes to the position of the file object,
\* which is 0 since its open; what the file holds beyond the text stays
WriteText(path, text, fs) ==
    [fs EXCEPT ![path] = text \o SubSeq(fs[path], Len(text) + 1, Len(fs[path]))]

(***************************************************************************)
(* The inputs.  An input is a command line, a filesystem and the modules   *)
(* importlib can resolve.  Each family below varies one part of the input  *)
(* over a bounded set and holds the rest at a plain value.                 *)
(***************************************************************************)
Script == "gen_stub.py"
GoodModule == "kand"          \* an identifier that resolves
MissingModule == "nomod"      \* an identifier that does not
OldContent == "# old stub\n"  \* content of a file left by something else

NameAlphabet == {"_", "f"}
DocAlphabet == {" ", "a", "\n"}
DirNames == <<"a", "b", "c", "d", "e">>

\* all sequences over S of length lo..hi
SeqsBetween(S, lo, hi) == UNION { [1..n -> S] : n \in lo..hi }

Attr(raises, kind, sig, doc) ==
    [raises |-> raises, kind |-> kind, sig |-> sig, doc |-> doc]

Sig(params) == [err |-> "none", params |-> params]
SigError(e) == [err |-> e, params |-> <<>>]

\* a plain function: def f(x) with no docstring
PlainFunction == Attr(FALSE, "function", Sig(<<"x">>), <<>>)

\* the output path with d directory components: out.pyi, a/out.pyi, a/b/out.pyi...
PathOfDepth(d) == SubSeq(DirNames, 1, d) \o <<"out.pyi">>

\* the command lines: the script name and 0 to 3 arguments (the path argument
\* is held as its components)
ArgvOf(modid, path) ==
    { SubSeq(<<Script, modid, path, "extra">>, 1, n) : n \in 1..4 }

\* the filesystems for an output path: the first e of its directories exist,
\* and with all of them an older file may be in place
FilesystemsOf(path) ==
    LET d == Len(path) - 1
    IN  { [dirs |-> { SubSeq(path, 1, k) : k \in 1..e }, files |-> <<>>] :
            e \in 0..d }
        \cup { [dirs |-> { SubSeq(path, 1, k) : k \in 1..d },
                files |-> [p \in {path} |-> OldContent]] }

Input(av, fs, modules) == [argv |-> av, fs |-> fs, modules |-> modules]

\* family 1: command lines, output paths and filesystems
DocumentedFunction ==
    Attr(FALSE, "function", Sig(<<"x">>), << <<"a">> >>)

FsInputsOf(path) ==
    { Input(av, fs,
            [m \in {GoodModule} |-> [n \in {<<"f">>} |-> DocumentedFunction]]) :
        av \in ArgvOf(GoodModule, path) \cup ArgvOf(MissingModule, path),
        fs \in FilesystemsOf(path) }

FsInputs == UNION { FsInputsOf(PathOfDepth(d)) : d \in 0..MaxDepth }

\* family 2: what is bound to a name
SymbolNames == { <<"_", "_", "f", "_", "_">>, <<"_", "f">>, <<"f">> }
SymbolAttrs ==
    { Attr(FALSE, k, sg, <<>>) :
        k \in {"function", "builtin"},
        sg \in { Sig(<<>>), Sig(<<"x", "n=3">>),
                 SigError("ValueError"), SigError("TypeError") } }
    \cup { Attr(FALSE, "class", Sig(<<>>), <<>>) }
    \cup { Attr(FALSE, k, SigError("TypeError"), <<>>) : k \in {"module", "data"} }
    \cup { Attr(TRUE, "data", SigError("TypeError"), <<>>) }

DefaultPath == PathOfDepth(1)
DefaultArgv == <<Script, GoodModule, DefaultPath>>
EmptyFs == [dirs |-> {}, files |-> <<>>]

SymbolInputs ==
    { Input(DefaultArgv, EmptyFs, [m \in {GoodModule} |-> module]) :
        module \in UNION { [S -> SymbolAttrs] : S \in SUBSET SymbolNames } }

\* family 3: the spelling of a name
NameInputs ==
    { Input(DefaultArgv, EmptyFs,
            [m \in {GoodModule} |-> [n \in {name} |-> a]]) :
        name \in SeqsBetween(NameAlphabet, 1, MaxNameLen),
        a \in { PlainFunction, Attr(FALSE, "data", SigError("TypeError"), <<>>) } }

\* family 4: docstrings
DocChoices(maxlen) ==
    {<<>>} \cup { <<d>> : d \in SeqsBetween(DocAlphabet, 0, maxlen) }

DocInputs ==
    { Input(DefaultArgv, EmptyFs,
            [m \in {GoodModule} |->
                [n \in {<<"f">>, <<"g">>} |->
                    IF n = <<"f">>
                    THEN Attr(FALSE, "function", Sig(<<"x">>), df)
                    ELSE Attr(FALSE, "builtin", SigError("ValueError"), dg)]]) :
        df \in DocChoices(MaxDocLen), dg \in DocChoices(MaxSecondDocLen) }

\* family 5: an error that escapes the loop after a first declaration, on each
\* filesystem of the output path
EscapingAttrs ==
    { Attr(TRUE, "function", Sig(<<>>), <<>>),
      Attr(FALSE, "function", SigError("TypeError"), <<>>),
      Attr(FALSE, "builtin", SigError("TypeError"), <<>>) }

EscapeInputs ==
    { Input(DefaultArgv, fs,
            [m \in {GoodModule} |->
                [n \in {<<"f">>, <<"g">>} |->
                    IF n = <<"f">> THEN PlainFunction ELSE bad]]) :
        fs \in FilesystemsOf(DefaultPath), bad \in EscapingAttrs }

Inputs ==
    FsInputs \cup SymbolInputs \cup NameInputs \cup DocInputs \cup EscapeInputs

(***************************************************************************)
(* The state after the interpreter has started the script.                 *)
(***************************************************************************)
\* no second invocation
NoPeer == [pc |-> "absent", argv |-> <<>>, text |-> "", exception |-> None]

Fresh ==
    /\ pc = "main"
    /\ package_name = ""
    /\ output_path = <<>>
    /\ pkg = <<>>
    /\ public_names = <<>>
    /\ idx = 1
    /\ pyi_lines = <<>>
    /\ stdout = <<>>
    /\ exit_code = <<>>
    /\ exception = None

Init ==
    /\ \E inp \in Inputs :
        /\ argv = inp.argv
        /\ sys_modules = inp.modules
        /\ dirs = inp.fs.dirs
        /\ files = inp.fs.files
    /\ Fresh
    /\ run = 1
    /\ dirs0 = dirs
    /\ files0 = files
    /\ peer = NoPeer
    /\ io_log = <<>>

(***************************************************************************)
(* The script, one action per step.                                        *)
(***************************************************************************)
\* an exception nothing handles: the traceback goes to stderr, the status is 1
Raise(e) ==
    /\ pc' = "exited"
    /\ exception' = e
    /\ exit_code' = <<1>>

\* TooFewArguments, had the comparison been len(sys.argv) <= 3
TooFewArguments_OffByOne(av) == Len(av) <= 3

\* the argument check of the __main__ block
TooFewArguments(av) == Len(av) < 3

\* if len(sys.argv) < 3: usage and sys.exit(1); else call generate_stub_file
Main ==
    /\ pc = "main"
    /\ IF TooFewArguments(argv)
       THEN /\ stdout' = stdout \o
                  << "Usage: python gen_stub.py <package_name> <output_path>",
                     "Example: python gen_stub.py kand python/kand/_kand.pyi" >>
            /\ pc' = "exited"
            /\ exit_code' = <<1>>
            /\ UNCHANGED <<package_name, output_path>>
       ELSE /\ package_name' = argv[2]
            /\ output_path' = argv[3]
            /\ pc' = "import"
            /\ UNCHANGED <<stdout, exit_code>>
    /\ UNCHANGED <<argv, sys_modules, dirs, files, pkg, public_names, idx,
                   pyi_lines, exception, run, dirs0, files0>>

\* ImportModule, had the import been wrapped in a try that falls back to a
\* module without attributes
ImportModule_Swallow ==
    /\ pc = "import"
    /\ pkg' = IF package_name \in DOMAIN sys_modules
              THEN sys_modules[package_name] ELSE <<>>
    /\ pc' = "enumerate"
    /\ UNCHANGED <<argv, sys_modules, dirs, files, package_name, output_path,
                   public_names, idx, pyi_lines, stdout, exit_code, exception,
                   run, dirs0, files0>>

\* importlib.import_module raises for an identifier it cannot resolve
ImportFails(name, modules) == name \notin DOMAIN modules

\* pkg = importlib.import_module(package_name)
ImportModule ==
    /\ pc = "import"
    /\ IF ImportFails(package_name, sys_modules)
       THEN /\ Raise("ModuleNotFoundError")
            /\ UNCHANGED pkg
       ELSE /\ pkg' = sys_modules[package_name]
            /\ pc' = "enumerate"
            /\ UNCHANGED <<exception, exit_code>>
    /\ UNCHANGED <<argv, sys_modules, dirs, files, package_name, output_path,
                   public_names, idx, pyi_lines, stdout, run, dirs0, files0>>

\* Enumerate, had the output file been opened before the loop, to be written
\* declaration by declaration
Enumerate_OpenEarly ==
    /\ pc = "enumerate"
    /\ public_names' = PublicNames(pkg)
    /\ pyi_lines' = Header(package_name)
    /\ idx' = 1
    /\ pc' = "loop"
    /\ dirs' = makedirs(dirname(output_path), dirs)
    /\ files' = OpenW(output_path, files)
    /\ UNCHANGED <<argv, sys_modules, package_name, output_path,
                   pkg, stdout, exit_code, exception, run, dirs0, files0>>

\* public_names = [...]; pyi_lines = []; the six appends of the header
Enumerate ==
    /\ pc = "enumerate"
    /\ public_names' = PublicNames(pkg)
    /\ pyi_lines' = Header(package_name)
    /\ idx' = 1
    /\ pc' = "loop"
    /\ UNCHANGED <<argv, sys_modules, dirs, files, package_name, output_path,
                   pkg, stdout, exit_code, exception, run, dirs0, files0>>

\* Eligible, had the loop tested callable(attr): classes pass as well
Eligible_Callable(attr) == attr.kind \in {"function", "builtin", "class"}

\* the condition of the if in the loop
Eligible(attr) == isfunction(attr) \/ isbuiltin(attr)

\* one iteration of: for name in public_names
LoopStep ==
    /\ pc = "loop"
    /\ idx <= Len(public_names)
    /\ LET name == public_names[idx]
           attr == pkg[name]
       IN  IF attr.raises
           THEN \* attr = getattr(pkg, name) raises
                /\ Raise("AttributeError")
                /\ UNCHANGED <<idx, pyi_lines>>
           ELSE IF ~Eligible(attr)
           THEN /\ idx' = idx + 1
                /\ UNCHANGED <<pc, exception, exit_code, pyi_lines>>
           ELSE IF attr.sig.err \notin {"none"} \cup CaughtBySignatureTry
           THEN \* inspect.signature raises past the except clause
                /\ Raise(attr.sig.err)
                /\ UNCHANGED <<idx, pyi_lines>>
           ELSE /\ pyi_lines' = pyi_lines
                      \o Block(name, SignatureText(attr), DocLines(attr))
                /\ idx' = idx + 1
                /\ UNCHANGED <<pc, exception, exit_code>>
    /\ UNCHANGED <<argv, sys_modules, dirs, files, package_name, output_path,
                   pkg, public_names, stdout, run, dirs0, files0>>

\* os.makedirs(os.path.dirname(output_path), exist_ok=True), after the loop
MakeDirs ==
    /\ pc = "loop"
    /\ idx > Len(public_names)
    /\ IF MakedirsFails(dirname(output_path))
       THEN /\ Raise("FileNotFoundError")
            /\ UNCHANGED dirs
       ELSE /\ dirs' = makedirs(dirname(output_path), dirs)
            /\ pc' = "open"
            /\ UNCHANGED <<exception, exit_code>>
    /\ UNCHANGED <<argv, sys_modules, files, package_name, output_path, pkg,
                   public_names, idx, pyi_lines, stdout, run, dirs0, files0>>

\* with open(output_path, "w", encoding="utf-8") as f
OpenFile ==
    /\ pc = "open"
    /\ IF OpenFails(output_path, dirs)
       THEN /\ Raise("FileNotFoundError")
            /\ UNCHANGED files
       ELSE /\ files' = OpenW(output_path, files)
            /\ pc' = "write"
            /\ UNCHANGED <<exception, exit_code>>
    /\ UNCHANGED <<argv, sys_modules, dirs, package_name, output_path, pkg,
                   public_names, idx, pyi_lines, stdout, run, dirs0, files0>>

\* f.write("\n".join(pyi_lines)) and the end of the with block
WriteFile ==
    /\ pc = "write"
    /\ files' = WriteText(output_path, JoinStr("\n", pyi_lines), files)
    /\ pc' = "print"
    /\ UNCHANGED <<argv, sys_modules, dirs, package_name, output_path, pkg,
                   public_names, idx, pyi_lines, stdout, exit_code, exception,
                   run, dirs0, files0>>

\* print(f"Generated: {output_path}") and the end of the script
PrintGenerated ==
    /\ pc = "print"
    /\ stdout' = stdout \o <<"Generated: " \o PathStr(output_path)>>
    /\ pc' = "exited"
    /\ exit_code' = <<0>>
    /\ UNCHANGED <<argv, sys_modules, dirs, files, package_name, output_path,
                   pkg, public_names, idx, pyi_lines, exception, run, dirs0,
                   files0>>

\* the same command line is run again: a new process on the filesystem the
\* last one left, with the modules unchanged
Rerun ==
    /\ pc = "exited"
    /\ run < MaxRuns
    /\ run' = run + 1
    /\ pc' = "main"
    /\ package_name' = ""
    /\ output_path' = <<>>
    /\ pkg' = <<>>
    /\ public_names' = <<>>
    /\ idx' = 1
    /\ pyi_lines' = <<>>
    /\ stdout' = <<>>
    /\ exit_code' = <<>>
    /\ exception' = None
    /\ dirs0' = dirs
    /\ files0' = files
    /\ UNCHANGED <<argv, sys_modules, dirs, files>>

\* a step of the invocation that is none of a second one
Alone == UNCHANGED <<peer, io_log>>

Next ==
    \/ Main /\ Alone
    \/ ImportModule /\ Alone
    \/ Enumerate /\ Alone
    \/ LoopStep /\ Alone
    \/ MakeDirs /\ Alone
    \/ OpenFile /\ Alone
    \/ WriteFile /\ Alone
    \/ PrintGenerated /\ Alone
    \/ Rerun /\ Alone

Spec == Init /\ [][Next]_vars

(***************************************************************************)
(* Two invocations at the same time on one output path.  The second runs   *)
(* the same script; its steps up to the end of the loop touch nothing the  *)
(* first can see, so they are one step here.  Nothing in the script takes  *)
(* a lock or waits for the other invocation.                               *)
(***************************************************************************)
PeerModule == "kand_ta"       \* a second identifier that resolves

RECURSIVE LoopResult(_, _, _)
\* the for loop run to its end or to the first error that escapes it
LoopResult(module, names, lines) ==
    IF names = <<>> THEN [exception |-> None, lines |-> lines]
    ELSE LET name == Head(names)
             attr == module[name]
         IN  IF attr.raises
             THEN [exception |-> "AttributeError", lines |-> lines]
             ELSE IF ~Eligible(attr)
             THEN LoopResult(module, Tail(names), lines)
             ELSE IF attr.sig.err \notin {"none"} \cup CaughtBySignatureTry
             THEN [exception |-> attr.sig.err, lines |-> lines]
             ELSE LoopResult(module, Tail(names),
                     lines \o Block(name, SignatureText(attr), DocLines(attr)))

\* the second invocation, from its start to the end of its loop
PeerRender ==
    /\ peer.pc = "main"
    /\ IF TooFewArguments(peer.argv)
       THEN peer' = [peer EXCEPT !.pc = "exited"]
       ELSE IF ImportFails(peer.argv[2], sys_modules)
       THEN peer' = [peer EXCEPT !.pc = "exited",
                                 !.exception = "ModuleNotFoundError"]
       ELSE LET module == sys_modules[peer.argv[2]]
                result == LoopResult(module, PublicNames(module),
                                     Header(peer.argv[2]))
            IN  IF result.exception # None
                THEN peer' = [peer EXCEPT !.pc = "exited",
                                          !.exception = result.exception]
                ELSE peer' = [peer EXCEPT !.pc = "makedirs",
                                          !.text = JoinStr("\n", result.lines)]
    /\ UNCHANGED <<argv, sys_modules, dirs, files, pc, package_name,
                   output_path, pkg, public_names, idx, pyi_lines, stdout,
                   exit_code, exception, run, dirs0, files0, io_log>>

\* os.makedirs of the second invocation
PeerMakeDirs ==
    /\ peer.pc = "makedirs"
    /\ IF MakedirsFails(dirname(peer.argv[3]))
       THEN /\ peer' = [peer EXCEPT !.pc = "exited",
                                    !.exception = "FileNotFoundError"]
            /\ UNCHANGED dirs
       ELSE /\ dirs' = makedirs(dirname(peer.argv[3]), dirs)
            /\ peer' = [peer EXCEPT !.pc = "open"]
    /\ UNCHANGED <<argv, sys_modules, files, pc, package_name, output_path,
                   pkg, public_names, idx, pyi_lines, stdout, exit_code,
                   exception, run, dirs0, files0, io_log>>

\* open of the second invocation
PeerOpen ==
    /\ peer.pc = "open"
    /\ IF OpenFails(peer.argv[3], dirs)
       THEN /\ peer' = [peer EXCEPT !.pc = "exited",
                                    !.exception = "FileNotFoundError"]
            /\ UNCHANGED <<files, io_log>>
       ELSE /\ files' = OpenW(peer.argv[3], files)
            /\ peer' = [peer EXCEPT !.pc = "write"]
            /\ io_log' = Append(io_log, [who |-> 2, op |-> "open"])
    /\ UNCHANGED <<argv, sys_modules, dirs, pc, package_name, output_path,
                   pkg, public_names, idx, pyi_lines, stdout, exit_code,
                   exception, run, dirs0, files0>>

\* f.write and the end of the with block of the second invocation
PeerWrite ==
    /\ peer.pc = "write"
    /\ files' = WriteText(peer.argv[3], peer.text, files)
    /\ peer' = [peer EXCEPT !.pc = "print"]
    /\ io_log' = Append(io_log, [who |-> 2, op |-> "write"])
    /\ UNCHANGED <<argv, sys_modules, dirs, pc, package_name, output_path,
                   pkg, public_names, idx, pyi_lines, stdout, exit_code,
                   exception, run, dirs0, files0>>

\* print and the end of the script of the second invocation (its stdout is
\* its own)
PeerPrint ==
    /\ peer.pc = "print"
    /\ peer' = [peer EXCEPT !.pc = "exited"]
    /\ UNCHANGED <<argv, sys_modules, dirs, files, pc, package_name,
                   output_path, pkg, public_names, idx, pyi_lines, stdout,
                   exit_code, exception, run, dirs0, files0, io_log>>

\* the modules of the two invocations
RaceModules ==
    { <<>>,
      [n \in {<<"f">>} |-> PlainFunction],
      [n \in {<<"f">>} |-> DocumentedFunction],
      [n \in {<<"f">>} |-> Attr(FALSE, "function", SigError("TypeError"), <<>>)] }

\* the registries: both identifiers resolve
RaceRegistries ==
    { [m \in {GoodModule, PeerModule} |-> IF m = GoodModule THEN m1 ELSE m2] :
        m1 \in RaceModules, m2 \in RaceModules }

InitRace ==
    /\ argv = DefaultArgv
    /\ sys_modules \in RaceRegistries
    /\ \E fs \in FilesystemsOf(DefaultPath) :
          dirs = fs.dirs /\ files = fs.files
    /\ Fresh
    /\ run = 1
    /\ dirs0 = dirs
    /\ files0 = files
    /\ \E modid \in {GoodModule, PeerModule} :
          peer = [pc |-> "main", argv |-> <<Script, modid, DefaultPath>>,
                  text |-> "", exception |-> None]
    /\ io_log = <<>>

\* the step of the first invocation goes into the log
Logged(op) == io_log' = Append(io_log, [who |-> 1, op |-> op]) /\ UNCHANGED peer

NextRace ==
    \/ Main /\ Alone
    \/ ImportModule /\ Alone
    \/ Enumerate /\ Alone
    \/ LoopStep /\ Alone
    \/ MakeDirs /\ Alone
    \/ OpenFile /\ Logged("open")
    \/ WriteFile /\ Logged("write")
    \/ PrintGenerated /\ Alone
    \/ PeerRender
    \/ PeerMakeDirs
    \/ PeerOpen
    \/ PeerWrite
    \/ PeerPrint

SpecRace == InitRace /\ [][NextRace]_vars

(***************************************************************************)
(* Vocabulary of the properties.                                           *)
(***************************************************************************)
Range(f) == { f[x] : x \in DOMAIN f }

\* the loop ran to its end: pyi_lines is the whole document
Rendered == pyi_lines # <<>> /\ idx > Len(public_names)

\* the run ended normally
Succeeded == pc = "exited" /\ exit_code = <<0>>

\* the command line names a module and an output path
HasArguments == Len(argv) >= 3

\* a name that starts with two underscores and ends with two underscores
NameIsMagic(name) ==
    /\ Len(name) >= 2
    /\ name[1] = "_" /\ name[2] = "_"
    /\ name[Len(name) - 1] = "_" /\ name[Len(name)] = "_"

\* a source-defined function or a natively implemented callable
IsFunctionLike(attr) == attr.kind \in {"function", "builtin"}

\* the line declares name: def <name>(...
IsDeclarationOf(line, name) ==
    \/ line = "def " \o Str(name) \o "(...):"
    \/ \E a \in Range(pkg) :
          line = "def " \o Str(name) \o "(" \o JoinStr(", ", a.sig.params) \o "):"

\* the positions of the declarations of name in the document
Declarations(name) ==
    { i \in 1..Len(pyi_lines) : IsDeclarationOf(pyi_lines[i], name) }

\* the file at a path: <<>> if there is none, else <<content>>
FileAt(path, fs) == IF path \in DOMAIN fs THEN <<fs[path]>> ELSE <<>>

(***************************************************************************)
(* C1: in the finished document every top-level name of the module that   *)
(* is not magic and is bound to a function or a builtin is declared        *)
(* exactly once, and no other name of the module (a class, a submodule, a  *)
(* data value, a magic name) is declared at all.                           *)
(***************************************************************************)
C1_OneDeclarationPerFunction ==
    Rendered =>
        \A name \in DOMAIN pkg :
            Cardinality(Declarations(name)) =
                IF ~NameIsMagic(name) /\ IsFunctionLike(pkg[name]) THEN 1 ELSE 0

\* a finished document of a module with a function, a builtin and a class
C1_Witness ==
    /\ Rendered
    /\ \E n1, n2, n3 \in DOMAIN pkg :
          /\ pkg[n1].kind = "function" /\ ~NameIsMagic(n1)
          /\ pkg[n2].kind = "builtin" /\ ~NameIsMagic(n2)
          /\ pkg[n3].kind = "class"

(***************************************************************************)
(* C2: the enumerator drops a name exactly when it starts with two         *)
(* underscores and ends with two underscores; every other name is kept.    *)
(* No line of the document ever declares a magic name.                     *)
(***************************************************************************)
C2_MagicNamesDropped ==
    /\ pc \notin {"main", "import", "enumerate"} /\ pyi_lines # <<>> =>
          \A name \in DOMAIN pkg :
              (name \in Range(public_names)) <=> ~NameIsMagic(name)
    /\ \A name \in DOMAIN pkg : NameIsMagic(name) => Declarations(name) = {}

\* a finished document of a module with a magic-named function and a
\* declared function whose name only starts with an underscore
C2_Witness ==
    /\ Rendered
    /\ \E m, n \in DOMAIN pkg :
          /\ NameIsMagic(m) /\ pkg[m].kind = "function"
          /\ ~NameIsMagic(n) /\ n[1] = "_" /\ Declarations(n) # {}

(***************************************************************************)
(* C3: when the module identifier does not resolve, the run never creates  *)
(* a directory, never creates or truncates a file and prints nothing, and  *)
(* it ends with an unhandled error.                                        *)
(***************************************************************************)
C3_ImportFailureLeavesNoOutput ==
    HasArguments /\ argv[2] \notin DOMAIN sys_modules =>
        /\ dirs = dirs0
        /\ files = files0
        /\ stdout = <<>>
        /\ pc \notin {"enumerate", "loop", "open", "write", "print"}
        /\ pc = "exited" => exception # None /\ exit_code = <<1>>

\* the import failed with an older file at the output path
C3_Witness ==
    /\ exception = "ModuleNotFoundError"
    /\ argv[3] \in DOMAIN files

(***************************************************************************)
(* C4: with fewer than two arguments the run prints the usage line and the *)
(* example, exits with status 1, loads no module and leaves the filesystem *)
(* alone; with two or more, the first two become the module identifier and *)
(* the output path of generate_stub_file.                                  *)
(***************************************************************************)
C4_ArgumentCheck ==
    /\ ~HasArguments =>
          /\ pc \in {"main", "exited"}
          /\ dirs = dirs0 /\ files = files0
          /\ pc = "exited" =>
                /\ exit_code = <<1>>
                /\ stdout =
                     << "Usage: python gen_stub.py <package_name> <output_path>",
                        "Example: python gen_stub.py kand python/kand/_kand.pyi" >>
    /\ HasArguments /\ pc # "main" =>
          /\ package_name = argv[2]
          /\ output_path = argv[3]
          /\ pc = "exited" => exit_code = <<0>> \/ exception # None

\* a run with one argument has ended
C4_Witness == Len(argv) = 2 /\ pc = "exited"

(***************************************************************************)
(* C5: when the same command line has been run again, the file at the      *)
(* output path is the file the run before left there.                      *)
(***************************************************************************)
C5_RerunLeavesSameFile ==
    run >= 2 /\ pc = "exited" /\ HasArguments =>
        FileAt(argv[3], files) = FileAt(argv[3], files0)

\* a second run has written the file
C5_Witness == run = 2 /\ Succeeded /\ argv[3] \in DOMAIN files

(***************************************************************************)
(* C6: whatever the output path (its directory exists, directories are     *)
(* missing at several levels, or it is a bare file name), a run that       *)
(* loaded its module and rendered the document creates the missing         *)
(* directories, ends without error and leaves exactly the rendered text in *)
(* the file.                                                               *)
(***************************************************************************)
C6_EveryPathIsWritten ==
    pc = "exited" /\ Rendered =>
        /\ Succeeded
        /\ \A k \in 1..(Len(output_path) - 1) : SubSeq(output_path, 1, k) \in dirs
        /\ FileAt(output_path, files) = <<JoinStr("\n", pyi_lines)>>

\* what does hold: the same, for the paths that have a directory component
C6_PathsWithDirectoryAreWritten ==
    pc = "exited" /\ Rendered /\ Len(output_path) >= 2 =>
        /\ Succeeded
        /\ \A k \in 1..(Len(output_path) - 1) : SubSeq(output_path, 1, k) \in dirs
        /\ FileAt(output_path, files) = <<JoinStr("\n", pyi_lines)>>

(***************************************************************************)
(* C7: a run ends with an error only when the module does not resolve or   *)
(* the filesystem fails; no error of fetching a symbol's value, signature  *)
(* or documentation ends it.                                               *)
(***************************************************************************)
C7_OnlyResolutionOrFilesystemErrors ==
    pc = "exited" /\ exception # None =>
        exception \in {"ModuleNotFoundError", "FileNotFoundError"}

\* the positions of public_names the loop has been through
Processed == IF pyi_lines = <<>> THEN {} ELSE { i \in 1..Len(public_names) : i < idx }

NoDocumentation(attr) ==
    \/ attr.doc = <<>>
    \/ \A i \in 1..Len(attr.doc[1]) : attr.doc[1][i] \in {" ", "\n"}

FallbackLine == "    \"\"\"No docstring available.\"\"\""

(***************************************************************************)
(* C9: the block of an eligible callable without documentation (no         *)
(* docstring, or a docstring of nothing but whitespace) has exactly one    *)
(* documentation line, the fallback; the block of an eligible callable     *)
(* with documentation has its documentation lines and no fallback.         *)
(***************************************************************************)
C9_FallbackForBlankDocstrings ==
    \A i \in Processed :
        LET name == public_names[i]
            attr == pkg[name]
        IN  IsFunctionLike(attr) =>
               \A d \in Declarations(name) :
                  IF NoDocumentation(attr)
                  THEN /\ pyi_lines[d + 1] = FallbackLine
                       /\ pyi_lines[d + 2] = "    ..."
                  ELSE /\ pyi_lines[d + 1] = "    \"\"\""
                       /\ pyi_lines[d + 2] # "    ..."

\* what does hold: the fallback is emitted exactly when inspect.getdoc
\* returns None or the empty string
C9_FallbackForEmptyGetdoc ==
    \A i \in Processed :
        LET name == public_names[i]
            attr == pkg[name]
        IN  IsFunctionLike(attr) =>
               \A d \in Declarations(name) :
                  IF attr.doc = <<>> \/ cleandoc(attr.doc[1]) = <<>>
                  THEN /\ pyi_lines[d + 1] = FallbackLine
                       /\ pyi_lines[d + 2] = "    ..."
                  ELSE /\ pyi_lines[d + 1] = "    \"\"\""
                       /\ pyi_lines[d + 2] # "    ..."

ExpectedHeader ==
    << "# Auto-generated stub file for " \o package_name,
       "\"\"\"",
       "Type hints and function signatures stub file for IDE autocompletion.",
       "Auto-generated to avoid manual maintenance. Can be enhanced with more precise type annotations.",
       "\"\"\"",
       "" >>

ExpectedBlock(name, sig_text, doc_lines) ==
    LET k == Len(doc_lines)
    IN  << "def " \o Str(name) \o sig_text \o ":" >>
        \o (IF k >= 1
            THEN << "    \"\"\"" >>
                 \o [j \in 1..k |-> "    " \o Str(doc_lines[j])]
                 \o << "    \"\"\"" >>
            ELSE << FallbackLine >>)
        \o << "    ...", "" >>

RECURSIVE ExpectedBlocks(_)
\* the blocks of the records among the first n enumerated names
ExpectedBlocks(n) ==
    IF n = 0 THEN <<>>
    ELSE LET name == public_names[n]
             attr == pkg[name]
         IN  ExpectedBlocks(n - 1)
             \o (IF IsFunctionLike(attr)
                 THEN ExpectedBlock(name, SignatureText(attr), DocLines(attr))
                 ELSE <<>>)

RECURSIVE ExpectedLength(_)
ExpectedLength(n) ==
    IF n = 0 THEN 6
    ELSE LET attr == pkg[public_names[n]]
             k == Len(DocLines(attr))
         IN  ExpectedLength(n - 1)
             + (IF ~IsFunctionLike(attr) THEN 0 ELSE IF k >= 1 THEN k + 5 ELSE 4)

(***************************************************************************)
(* C10: the rendered lines are the six header lines followed by one block  *)
(* per record, in the order the names were enumerated, and nothing else.   *)
(* A block is the declaration line; for k >= 1 doc lines an indented       *)
(* opening delimiter, the k lines in order behind four spaces each and an  *)
(* indented closing delimiter, otherwise the fallback line; the body       *)
(* marker; an empty line.  So a block has k + 5 lines, or 4.  The file     *)
(* written is these lines joined by line breaks.                           *)
(***************************************************************************)
C10_DocumentLayout ==
    pyi_lines # <<>> =>
        /\ pyi_lines = ExpectedHeader \o ExpectedBlocks(Cardinality(Processed))
        /\ Len(pyi_lines) = ExpectedLength(Cardinality(Processed))
        /\ Succeeded =>
              FileAt(output_path, files) =
                 << JoinStr("\n", ExpectedHeader \o ExpectedBlocks(Len(public_names))) >>

\* a written document of two records, one with two doc lines and one without
\* documentation
C10_Witness ==
    /\ Succeeded
    /\ \E m, n \in Range(public_names) :
          /\ m # n
          /\ IsFunctionLike(pkg[m]) /\ Len(DocLines(pkg[m])) >= 2
          /\ IsFunctionLike(pkg[n]) /\ DocLines(pkg[n]) = <<>>

(***************************************************************************)
(* C12: within a run no directory is created, no file is created or        *)
(* truncated and nothing is printed before every symbol has been           *)
(* enumerated, classified, extracted and rendered.  So when an error       *)
(* escapes the loop (getattr raises, or inspect.signature raises an error  *)
(* that is not a ValueError), the run ends with the directories and the    *)
(* files as it found them, an older file at the output path included, and  *)
(* without the confirmation line.                                          *)
(***************************************************************************)
C12_NoMutationBeforeRendering ==
    /\ HasArguments /\ ~Rendered =>
          dirs = dirs0 /\ files = files0 /\ stdout = <<>>
    /\ pc = "exited" /\ exception \in {"AttributeError", "TypeError"} =>
          /\ ~Rendered
          /\ dirs = dirs0
          /\ files = files0
          /\ \A i \in 1..Len(stdout) :
                stdout[i] # "Generated: " \o PathStr(output_path)

\* an error escaped the loop after a first declaration, with an older file at
\* the output path
C12_Witness ==
    /\ pc = "exited"
    /\ exception \in {"AttributeError", "TypeError"}
    /\ Len(pyi_lines) > 6
    /\ FileAt(output_path, files) = <<OldContent>>

\* both invocations have written the file and ended normally
BothWrote ==
    /\ Succeeded
    /\ peer.pc = "exited" /\ peer.exception = None
    /\ Len(io_log) = 4

\* the complete rendered text of an invocation
RenderedText(who) == IF who = 1 THEN JoinStr("\n", pyi_lines) ELSE peer.text

(***************************************************************************)
(* C11: two invocations on one output path are not coordinated.  When both *)
(* have opened (truncated) the file before either writes, the file ends as *)
(* the text written last followed by what the text written first holds     *)
(* beyond that length; when the second open comes after the first write,   *)
(* it ends as the text written last.  So with different rendered texts a   *)
(* final state is reachable whose content is neither complete text.        *)
(***************************************************************************)
C11_UncoordinatedWrites ==
    BothWrote =>
        LET last == io_log[4].who
            first == 3 - last
            tail == SubSeq(RenderedText(first), Len(RenderedText(last)) + 1,
                           Len(RenderedText(first)))
        IN  /\ io_log[1].op = "open" /\ io_log[4].op = "write"
            /\ IF io_log[2].op = "open"
               THEN FileAt(output_path, files) = <<RenderedText(last) \o tail>>
               ELSE FileAt(output_path, files) = <<RenderedText(last)>>

\* both invocations have ended normally and the file is neither text
C11_Witness ==
    /\ BothWrote
    /\ RenderedText(1) # RenderedText(2)
    /\ FileAt(output_path, files) # <<RenderedText(1)>>
    /\ FileAt(output_path, files) # <<RenderedText(2)>>

=============================================================================
